---- MODULE Spec2Model ----
(***************************************************************************)
(* Model of backend/main.py: the project-registration API backed by one   *)
(* SQLite table.  The state is the database file (table present or not,   *)
(* its committed rows, the connection holding SQLite's write lock), the   *)
(* process (up or down), the open Session objects and the position of     *)
(* every request being served.                                             *)
(***************************************************************************)
EXTENDS Integers, Sequences, FiniteSets, TLC

\* ---------------------------------------------------------------- bounds
NumReqs == 2        \* request slots served concurrently
MaxRows == 2        \* rows the table may hold before creates are no longer issued

Reqs == 1 .. NumReqs

\* ------------------------------------------------------- optional values
\* Optional[T]: None is the empty tuple, a present value v is <<v>>.
None == << >>
Some(v) == << v >>

\* ------------------------------------------------------------- EmailStr
\* Strings that are inspected character by character are tuples of
\* one-character strings.
Lower(c) == CASE c = "A" -> "a" [] c = "B" -> "b" [] OTHER -> c

Letters == {"a", "b", "c", "n", "o", "t", "A", "B"}

RECURSIVE LStrip(_)
LStrip(s) == IF s # << >> /\ Head(s) = " " THEN LStrip(Tail(s)) ELSE s

RECURSIVE RStrip(_)
RStrip(s) == IF s # << >> /\ s[Len(s)] = " " THEN RStrip(SubSeq(s, 1, Len(s) - 1)) ELSE s

Strip(s) == RStrip(LStrip(s))

AtPositions(s) == {i \in 1 .. Len(s) : s[i] = "@"}

\* the address is split at its "@" (at its end when it has none)
AtIndex(s) ==
    IF AtPositions(s) = {} THEN Len(s) + 1
    ELSE CHOOSE i \in AtPositions(s) : \A j \in AtPositions(s) : j <= i

LocalPart(s) == SubSeq(s, 1, AtIndex(s) - 1)

DomainPart(s) == SubSeq(s, AtIndex(s) + 1, Len(s))

\* dot-atom: letters separated by single dots, no dot first or last
DotAtom(p) ==
    /\ p # << >>
    /\ \A i \in 1 .. Len(p) : p[i] \in Letters \cup {"."}
    /\ p[1] # "." /\ p[Len(p)] # "."
    /\ \A i \in 1 .. Len(p) - 1 : ~(p[i] = "." /\ p[i + 1] = ".")

\* the syntactic rule of the validator: local-part "@" domain, the domain
\* holding at least one dot
EmailSyntaxOk(e) ==
    /\ Cardinality(AtPositions(e)) = 1
    /\ DotAtom(LocalPart(e))
    /\ DotAtom(DomainPart(e))
    /\ \E i \in 1 .. Len(DomainPart(e)) : DomainPart(e)[i] = "."

ValidEmail(s) == EmailSyntaxOk(Strip(s))

\* the value EmailStr hands on: surrounding blanks removed, domain lower-cased
NormalizeEmail(s) ==
    LET e == Strip(s)
        d == DomainPart(e)
    IN  IF AtPositions(e) = {} THEN e
        ELSE LocalPart(e) \o << "@" >> \o [i \in 1 .. Len(d) |-> Lower(d[i])]


\* ------------------------------------------------------------ data model
Fields == {"name", "owner", "location", "sector", "email"}

\* the strings tried as e-mail addresses
Emails ==
    { << "a", "@", "b", ".", "c" >>,
      << "a", "@", "B", ".", "c" >>,
      << " ", "A", "@", "b", ".", "c" >>,
      << "n", "o", "t" >>,
      << "a", "@", "b", "c" >> }

BaseInput ==
    [name |-> Some("Solar Grid"), owner |-> Some("Ana Ruiz"), location |-> Some("Madrid"),
     sector |-> Some("Energy"), email |-> Some(<< "a", "@", "b", ".", "c" >>)]

\* request bodies of POST /projects/: every field present, or one field missing
Inputs ==
    {[BaseInput EXCEPT !.email = Some(e)] : e \in Emails}
        \cup {[BaseInput EXCEPT ![f] = None] : f \in {"sector", "email"}}

\* a bug: email declared as a plain str, its syntax unchecked
ProjectCreateErrorsNoEmail(inp) == {f \in Fields : inp[f] = None}

\* class ProjectCreate: the fields of a body that fail validation
ProjectCreateErrors(inp) ==
    {f \in Fields \ {"email"} : inp[f] = None}
        \cup (IF inp.email = None \/ ~ValidEmail(inp.email[1]) THEN {"email"} ELSE {})

\* class ProjectCreate: the validated input object
ProjectCreate(inp) ==
    IF inp.email = None THEN inp
    ELSE [inp EXCEPT !.email = Some(NormalizeEmail(inp.email[1]))]

\* a bug: a field of the input is not carried over
ModelValidateDropsSector(pin) ==
    [id |-> None, name |-> pin.name, owner |-> pin.owner, location |-> pin.location,
     sector |-> None, email |-> pin.email]

\* Project.model_validate(project_in): a table object with the input's
\* fields and no id yet
ModelValidate(pin) ==
    [id |-> None, name |-> pin.name, owner |-> pin.owner, location |-> pin.location,
     sector |-> pin.sector, email |-> pin.email]

\* ------------------------------------------------------------- the table
Ids(tbl) == {row.id[1] : row \in tbl}

MaxOf(S) == CHOOSE m \in S : \A x \in S : x <= m

\* INTEGER PRIMARY KEY given NULL: one more than the largest rowid in the table
NextRowid(tbl) == IF tbl = {} THEN 1 ELSE MaxOf(Ids(tbl)) + 1

\* the INSERT of the flush: the row as stored
InsertRow(tbl, obj) == [obj EXCEPT !.id = Some(NextRowid(tbl))]

\* a bug: the write lock is not honoured
CanWriteUnlocked(w, r) == TRUE

\* SQLite lets a connection write only while no other one holds the write
\* lock (w: the requests whose connection holds it)
CanWrite(w, r) == w \subseteq {r}

RECURSIVE ByRowid(_)
ByRowid(tbl) ==
    IF tbl = {} THEN << >>
    ELSE LET first == CHOOSE row \in tbl : \A other \in tbl : row.id[1] <= other.id[1]
         IN  << first >> \o ByRowid(tbl \ {first})

RECURSIVE Reverse(_)
Reverse(q) == IF q = << >> THEN << >> ELSE Append(Reverse(Tail(q)), Head(q))

\* a bug: the rows come newest first
SelectAllNewestFirst(tbl) == Reverse(ByRowid(tbl))

\* select(Project) ... .all(): a scan of the table in rowid order
SelectAll(tbl) == ByRowid(tbl)

\* a bug: listing consumes the newest row
AfterSelectPops(tbl) == {row \in tbl : \E other \in tbl : other.id[1] > row.id[1]}

\* list_projects writes nothing: the table after the request
AfterSelect(tbl) == tbl

\* a bug: the table is dropped and created again on every start
CreateAllFresh(exists, tbl) == {}

\* SQLModel.metadata.create_all(engine): CREATE TABLE only when absent
CreateAll(exists, tbl) == IF exists THEN tbl ELSE {}

\* a bug: the session is never closed
SessionExitLeaks(open, s) == open

\* with Session(engine) as session: the open sessions after the block is left
SessionExit(open, s) == open \ {s}

\* Session(engine): a new object for the request that asks; it is named
\* after that request
NewSession(open, r) == r


\* a bug: the transaction is never committed
CommitRowsLost(tbl, obj) == tbl

\* session.commit() succeeding: the pending row becomes part of the table
CommitRows(tbl, obj) == tbl \cup {obj}

\* a bug: a failed commit leaves part of the row behind
RollbackRowsPartial(tbl, obj) == tbl \cup {[obj EXCEPT !.email = None]}

\* session.commit() failing: the transaction is rolled back
RollbackRows(tbl, obj) == tbl

\* the row of the object is (still) in the table
HasRow(tbl, obj) == \E row \in tbl : row.id = obj.id

\* a bug: the newest row is read back instead of the object's own
RefreshRowNewest(tbl, obj) == CHOOSE row \in tbl : \A other \in tbl : other.id[1] <= row.id[1]

\* session.refresh(db_project): the row reloaded by its primary key
RefreshRow(tbl, obj) == CHOOSE row \in tbl : row.id = obj.id

\* ------------------------------------------------------------------ state
VARIABLES
    up,            \* the process is running (lifespan started)
    tableExists,   \* database.db holds the project table
    table,         \* the committed rows of the table
    writer,        \* the requests whose connection holds the write lock
    sessions,      \* the open Session objects
    req,           \* per request slot: position, input, session, object, response
    createdOrder,  \* history: the rows committed, in commit order
    acked,         \* history: the rows returned with 201
    rebooted       \* history: the last start found rows in the table

vars == << up, tableExists, table, writer, sessions, req, createdOrder, acked, rebooted >>

NoResp == [status |-> 0, body |-> None]

Idle ==
    [pc |-> "idle", kind |-> "none", input |-> None, session |-> 0, obj |-> None,
     resp |-> NoResp, seen |-> 0, failedAt |-> "none"]

Greeting == "API de la Plataforma de Contenidos funcionando con SQLite!"

Init ==
    /\ up = FALSE
    /\ tableExists = FALSE
    /\ table = {}
    /\ writer = {}
    /\ sessions = {}
    /\ req = [r \in Reqs |-> Idle]
    /\ createdOrder = << >>
    /\ acked = {}
    /\ rebooted = FALSE

\* creates under way that may still add a row
Creating == {r \in Reqs : req[r].kind = "create" /\ req[r].pc \in {"handler", "inserted"}}

\* lifespan: create_db_and_tables() before the first request is served
Startup ==
    /\ ~up
    /\ up' = TRUE
    /\ table' = CreateAll(tableExists, table)
    /\ tableExists' = TRUE
    /\ rebooted' = (table # {})
    /\ UNCHANGED << writer, sessions, req, createdOrder, acked >>

\* the process ends (shutdown or kill): its requests and sessions are gone,
\* an uncommitted transaction is rolled back by SQLite
Stop ==
    /\ up
    /\ up' = FALSE
    /\ req' = [r \in Reqs |-> Idle]
    /\ sessions' = {}
    /\ writer' = {}
    /\ UNCHANGED << tableExists, table, createdOrder, acked, rebooted >>

\* GET /
ReadRoot(r) ==
    /\ up /\ req[r].pc = "idle"
    /\ req' = [req EXCEPT ![r] = [Idle EXCEPT !.pc = "exit", !.kind = "root",
                                              !.resp = [status |-> 200, body |-> Some(Greeting)]]]
    /\ UNCHANGED << up, tableExists, table, writer, sessions, createdOrder, acked, rebooted >>

\* POST /projects/ arrives: get_session yields a session, then the body is
\* validated against ProjectCreate
ReceiveCreate(r) ==
    /\ up /\ req[r].pc = "idle"
    /\ \E inp \in Inputs :
        LET s == NewSession(sessions, r)
            errs == ProjectCreateErrors(inp)
        IN  /\ errs = {} => Cardinality(table) + Cardinality(Creating) < MaxRows
            /\ sessions' = sessions \cup {s}
            /\ req' = [req EXCEPT ![r] =
                        IF errs = {}
                        THEN [Idle EXCEPT !.pc = "handler", !.kind = "create",
                                          !.input = Some(inp), !.session = s]
                        ELSE [Idle EXCEPT !.pc = "exit", !.kind = "create",
                                          !.input = Some(inp), !.session = s,
                                          !.resp = [status |-> 422, body |-> Some(errs)]]]
    /\ UNCHANGED << up, tableExists, table, writer, createdOrder, acked, rebooted >>

\* GET /projects/ arrives: get_session yields a session
ReceiveList(r) ==
    /\ up /\ req[r].pc = "idle"
    /\ LET s == NewSession(sessions, r)
       IN  /\ sessions' = sessions \cup {s}
           /\ req' = [req EXCEPT ![r] = [Idle EXCEPT !.pc = "handler", !.kind = "list",
                                                      !.session = s]]
    /\ UNCHANGED << up, tableExists, table, writer, createdOrder, acked, rebooted >>

Fail(r, where) ==
    [Idle EXCEPT !.pc = "exit", !.kind = req[r].kind, !.session = req[r].session,
                 !.failedAt = where, !.resp = [status |-> 500, body |-> None]]

\* create_project, lines 89-94: model_validate, add, and the INSERT that
\* commit() flushes
Flush(r) ==
    /\ req[r].pc = "handler" /\ req[r].kind = "create"
    /\ CanWrite(writer, r)
    /\ LET db_project == ModelValidate(ProjectCreate(req[r].input[1]))
       IN  req' = [req EXCEPT ![r].pc = "inserted",
                              ![r].obj = Some(InsertRow(table, db_project))]
    /\ writer' = {r}
    /\ UNCHANGED << up, tableExists, table, sessions, createdOrder, acked, rebooted >>

\* the INSERT fails (database locked by another connection, I/O error)
FlushFails(r) ==
    /\ req[r].pc = "handler" /\ req[r].kind = "create"
    /\ req' = [req EXCEPT ![r] = Fail(r, "flush")]
    /\ UNCHANGED << up, tableExists, table, writer, sessions, createdOrder, acked, rebooted >>

\* create_project, line 94: the COMMIT
Commit(r) ==
    /\ req[r].pc = "inserted"
    /\ table' = CommitRows(table, req[r].obj[1])
    /\ createdOrder' = Append(createdOrder, req[r].obj[1])
    /\ writer' = {}
    /\ req' = [req EXCEPT ![r].pc = "committed"]
    /\ UNCHANGED << up, tableExists, sessions, acked, rebooted >>

\* the COMMIT fails: rollback
CommitFails(r) ==
    /\ req[r].pc = "inserted"
    /\ table' = RollbackRows(table, req[r].obj[1])
    /\ writer' = {}
    /\ req' = [req EXCEPT ![r] = Fail(r, "commit")]
    /\ UNCHANGED << up, tableExists, sessions, createdOrder, acked, rebooted >>

\* create_project, lines 96-99: refresh and return
Refresh(r) ==
    /\ req[r].pc = "committed"
    /\ HasRow(table, req[r].obj[1])
    /\ LET row == RefreshRow(table, req[r].obj[1])
       IN  /\ req' = [req EXCEPT ![r].pc = "exit", ![r].obj = None, ![r].input = None,
                                 ![r].resp = [status |-> 201, body |-> Some(row)]]
           /\ acked' = acked \cup {row}
    /\ UNCHANGED << up, tableExists, table, writer, sessions, createdOrder, rebooted >>

\* the SELECT of refresh fails
RefreshFails(r) ==
    /\ req[r].pc = "committed"
    /\ req' = [req EXCEPT ![r] = Fail(r, "refresh")]
    /\ UNCHANGED << up, tableExists, table, writer, sessions, createdOrder, acked, rebooted >>

\* list_projects, lines 107-110
Select(r) ==
    /\ req[r].pc = "handler" /\ req[r].kind = "list"
    /\ req' = [req EXCEPT ![r].pc = "exit", ![r].seen = Len(createdOrder),
                          ![r].resp = [status |-> 200, body |-> Some(SelectAll(table))]]
    /\ table' = AfterSelect(table)
    /\ UNCHANGED << up, tableExists, writer, sessions, createdOrder, acked, rebooted >>

\* the SELECT fails
SelectFails(r) ==
    /\ req[r].pc = "handler" /\ req[r].kind = "list"
    /\ req' = [req EXCEPT ![r] = Fail(r, "select")]
    /\ UNCHANGED << up, tableExists, table, writer, sessions, createdOrder, acked, rebooted >>

\* the request finishes: get_session's with-block is left (the session is
\* closed, rolling back what it left uncommitted) and the response has gone
\* out
Release(r) ==
    /\ req[r].pc = "exit"
    /\ sessions' = SessionExit(sessions, req[r].session)
    /\ writer' = writer \ {r}
    /\ req' = [req EXCEPT ![r] = Idle]
    /\ UNCHANGED << up, tableExists, table, createdOrder, acked, rebooted >>

Next ==
    \/ Startup
    \/ Stop
    \/ \E r \in Reqs :
        \/ ReadRoot(r)
        \/ ReceiveCreate(r)
        \/ ReceiveList(r)
        \/ Flush(r)
        \/ FlushFails(r)
        \/ Commit(r)
        \/ CommitFails(r)
        \/ Refresh(r)
        \/ RefreshFails(r)
        \/ Select(r)
        \/ SelectFails(r)
        \/ Release(r)

Spec == Init /\ [][Next]_vars


\* ----------------------------------------------------------------- claims
Range(q) == {q[i] : i \in DOMAIN q}

BusinessFields(a, b) == \A f \in Fields : a[f] = b[f]

Complete(row) == row.id # None /\ \A f \in Fields : row[f] # None

\* steps of one request, told by the position before and after
CommitStep(r) == req[r].pc = "inserted" /\ req'[r].pc = "committed"
RefreshStep(r) == req[r].pc = "committed" /\ req'[r].resp.status = 201
SelectStep(r) ==
    req[r].pc = "handler" /\ req[r].kind = "list" /\ req'[r].resp.status = 200
FailStep(r) ==
    req[r].kind = "create" /\ req[r].resp.status # 500 /\ req'[r].resp.status = 500

ListDone(r) == req[r].kind = "list" /\ req[r].pc = "exit" /\ req[r].resp.status = 200

\* C1: no two Project records ever share an id: the rows of the table have
\* pairwise different ids, every id ever committed (also before a restart)
\* was committed once, and two creates under way at the same time never
\* hold the same id.
C1_UniqueIds ==
    /\ \A a, b \in table : a.id = b.id => a = b
    /\ \A row \in table : row.id # None
    /\ \A i, j \in DOMAIN createdOrder :
        i # j => createdOrder[i].id # createdOrder[j].id
    /\ \A r1, r2 \in Reqs :
        (r1 # r2 /\ req[r1].obj # None /\ req[r2].obj # None)
            => req[r1].obj[1].id # req[r2].obj[1].id

\* two creates are under way at the same time: one has committed, the
\* other has inserted after it
C1_Witness ==
    \E r1, r2 \in Reqs :
        /\ req[r1].pc = "committed" /\ req[r1].obj[1].id = Some(1)
        /\ req[r2].pc = "inserted" /\ req[r2].obj[1].id = Some(2)

BadEmail(q) ==
    q.kind = "create" /\ q.input # None /\ q.input[1].email # None
        /\ ~ValidEmail(q.input[1].email[1])

\* C3: a POST whose email is syntactically invalid is answered 422 and no
\* step of that request changes the table, so the list is as long after
\* the call as before it.
C3_InvalidEmailRejected ==
    [][\A r \in Reqs :
        (req'[r] # req[r] /\ (BadEmail(req[r]) \/ BadEmail(req'[r])))
            => /\ table' = table
               /\ Len(SelectAll(table')) = Len(SelectAll(table))
               /\ BadEmail(req'[r]) => req'[r].pc = "exit" /\ req'[r].resp.status = 422]_vars

\* "not" was posted to a store holding a record
C3_Witness ==
    \E r \in Reqs :
        /\ BadEmail(req[r])
        /\ req[r].input[1].email = Some(<< "n", "o", "t" >>)
        /\ req[r].resp.status = 422
        /\ table # {}

\* C4: a list answer holds every record of the store at the time it was
\* read, each once, in the order the records were committed, which is
\* ascending id order; an empty store gives the empty sequence.
C4_ListInCreationOrder ==
    \A r \in Reqs : ListDone(r) =>
        LET body == req[r].resp.body[1]
        IN  /\ body = SubSeq(createdOrder, 1, req[r].seen)
            /\ \A i, j \in DOMAIN body : i < j => body[i].id[1] < body[j].id[1]
            /\ req[r].seen = Len(createdOrder) =>
                /\ Range(body) = table
                /\ Len(body) = Cardinality(table)

\* two records created one after the other are listed, first one first
C4_Witness ==
    \E r \in Reqs :
        /\ ListDone(r)
        /\ Len(req[r].resp.body[1]) = 2
        /\ req[r].resp.body[1] = createdOrder
        /\ req[r].resp.body[1][1].email # req[r].resp.body[1][2].email

\* requests that are being served with store access
Serving == {r \in Reqs : req[r].pc # "idle" /\ req[r].kind # "root"}

\* C5: every request being served with store access holds one session of
\* its own, open until the request finishes; the sessions open are exactly
\* those of the requests being served, so a finished request (successful
\* or failed) leaves none open.
C5_SessionPerRequest ==
    /\ \A r \in Serving : req[r].session \in sessions
    /\ \A r1, r2 \in Serving : r1 # r2 => req[r1].session # req[r2].session
    /\ sessions = {req[r].session : r \in Serving}
    /\ Cardinality(sessions) = Cardinality(Serving)

\* a create of this run committed its row and failed afterwards, and has
\* finished: nothing is being served and no session is open
C5_Witness ==
    /\ up /\ ~rebooted
    /\ table # {} /\ acked = {}
    /\ \A r \in Reqs : req[r].pc = "idle"
    /\ sessions = {}

\* C6: the step in which a create fails answers 500, leaves the write lock
\* free and adds nothing to the table; a failure of the INSERT or of the
\* COMMIT leaves nothing of the record, a failure after the COMMIT leaves
\* the complete record; every row of the table is complete; the failed
\* request does not run again.
C6_FailedCreateAllOrNothing ==
    [][\A r \in Reqs :
        /\ FailStep(r) =>
            /\ r \notin writer'
            /\ table' = table
            /\ \A row \in table' : Complete(row)
            /\ req[r].pc = "inserted" =>
                \A row \in table' : row.id # req[r].obj[1].id
            /\ req[r].pc = "committed" =>
                req[r].obj[1] \in table' /\ Complete(req[r].obj[1])
        /\ req[r].resp.status = 500 => req'[r].pc \in {"exit", "idle"}]_vars

\* a COMMIT has failed while the store holds a record
C6_Witness ==
    \E r \in Reqs :
        /\ req[r].kind = "create" /\ req[r].failedAt = "commit"
        /\ req[r].resp.status = 500
        /\ table # {}

\* C7: stopping and starting the process leaves the table as it was: the
\* start creates the table when absent and otherwise changes nothing, so
\* the list after the restart is the list before it, the records
\* committed so far.
C7_RestartPreservesStore ==
    [][(up' # up) =>
        /\ table' = table
        /\ SelectAll(table') = SelectAll(table)
        /\ up' => tableExists' /\ Range(createdOrder') = table']_vars

\* a list answered after a restart shows the records of the earlier run
C7_Witness ==
    /\ rebooted
    /\ \E r \in Reqs :
        /\ ListDone(r)
        /\ Len(req[r].resp.body[1]) = 2
        /\ Range(req[r].resp.body[1]) = table

\* C8: every step keeps the rows of the table as they are, adds a row only
\* as the commit of a create (the row that create inserted), and leaves
\* every row with an id and all five business fields.
C8_AppendOnly ==
    [][/\ table \subseteq table'
       /\ \A a, b \in table' : a.id = b.id => a = b
       /\ table' # table =>
            \E r \in Reqs :
                /\ req[r].kind = "create" /\ CommitStep(r)
                /\ table' = table \cup {req[r].obj[1]}
       /\ \A row \in table' : Complete(row)]_vars

\* two records are stored while a rejected POST is being answered
C8_Witness ==
    /\ Cardinality(table) = 2
    /\ \E r \in Reqs : req[r].resp.status = 422

\* C9: a list leaves the table unchanged, and answers what an earlier list
\* answered when no create was committed since.
C9_ListIdempotent ==
    [][\A r \in Reqs : SelectStep(r) =>
        /\ table' = table
        /\ \A r2 \in Reqs :
            (r2 # r /\ ListDone(r2) /\ req[r2].seen = Len(createdOrder))
                => req'[r].resp.body = req[r2].resp.body]_vars

\* two lists of the same non-empty store have been answered
C9_Witness ==
    \E r1, r2 \in Reqs :
        /\ r1 # r2 /\ ListDone(r1) /\ ListDone(r2)
        /\ req[r1].seen = req[r2].seen
        /\ req[r1].resp.body[1] # << >>

\* C10: a create answers 201 with the row committed under its own id and
\* holding its own validated input; every row answered with 201 stays in
\* the table, also over restarts, and is in every list read afterwards.
C10_CommittedBeforeAnswer ==
    [][/\ acked' \subseteq table'
       /\ \A r \in Reqs : RefreshStep(r) =>
            LET row == req'[r].resp.body[1]
            IN  /\ row \in table'
                /\ row.id = req[r].obj[1].id
                /\ BusinessFields(row, ProjectCreate(req[r].input[1]))
       /\ \A r \in Reqs : SelectStep(r) =>
            acked \subseteq Range(req'[r].resp.body[1])]_vars

\* a list read after a restart holds a record answered with 201 before it
C10_Witness ==
    /\ rebooted
    /\ \E r \in Reqs :
        /\ ListDone(r)
        /\ acked # {}
        /\ acked \subseteq Range(req[r].resp.body[1])

====
